---- MODULE Spec2Model ----
(***************************************************************************)
(* The account-linking policy of src/server/auth.ts: the NextAuth signIn   *)
(* callback and its helper verifyEmail, run against the User and Account   *)
(* tables of the store.                                                    *)
(*                                                                         *)
(* One sign-in attempt is one run of signIn.  Every `await` of the code is *)
(* a point where another attempt may run, so each awaited store call is an *)
(* action of its own; the synchronous code between two awaits belongs to   *)
(* the action of the await that precedes it.                               *)
(***************************************************************************)
EXTENDS Integers, FiniteSets, Sequences, TLC

(***************************************************************************)
(* Bounds of the model.                                                    *)
(***************************************************************************)
\* e-mail addresses 1..NumEmails
NumEmails == 2
\* provider account ids 1..NumAccountIds
NumAccountIds == 1
\* sign-in attempts that may be in flight at the same time (RaceSpec)
NumAttempts == 2

Emails == 1..NumEmails
AccountIds == 1..NumAccountIds
Attempts == 1..NumAttempts

(***************************************************************************)
(* Values.                                                                 *)
(***************************************************************************)
\* `account?.provider`: the three configured providers, any other provider,
\* and "absent" for a missing account (account?.provider is undefined).
Providers == {"github", "discord", "google", "other", "absent"}

\* `null` results of prisma.user.findUnique / prisma.account.findFirst
NullUser == [id |-> 0, email |-> 0, emailVerified |-> FALSE]
NullAccount == [provider |-> "null", providerAccountId |-> 0, userId |-> 0]

\* no session: getServerSession resolved to null
NoSession == 0

\* the values signIn resolves to (or rejects with)
Allow == "true"
Deny == "false"
Rejected == "throw"
RedirectUnverified == "/auth/linkaccount?error=That account has an unverified email address."
RedirectUnverifiable == "/auth/linkaccount?error=The email address of that account couldn't be verified."
RedirectLinked == "/auth/linkaccount?error=That account has already been linked to another user."
Pending == "pending"

Redirects == {RedirectUnverified, RedirectUnverifiable, RedirectLinked}
Decisions == {Allow, Deny} \cup Redirects

VARIABLES
    users,           \* the User table: records [id, email, emailVerified]
    accounts,        \* the Account table: records [provider, providerAccountId, userId]
    pc,              \* pc[p]: where attempt p stands in signIn / verifyEmail
    req,             \* req[p]: the callback's arguments and the request's session
    existingUser,    \* existingUser[p]: the row read at line 57
    existingAccount, \* existingAccount[p]: the row read at line 58
    newUser,         \* newUser[p]: id of the row created at line 152 (0: none)
    verified,        \* verified[p]: what verifyEmail resolved to ("none": not called)
    result,          \* result[p]: what signIn resolved to
    writes,          \* writes[p]: the store writes attempt p issued, in order
    faulted,         \* a write has failed for another reason than a unique index
    retry            \* retry[p]: attempt p repeats the request of the attempt before

vars == <<users, accounts, pc, req, existingUser, existingAccount, newUser,
          verified, result, writes, faulted, retry>>

store == <<users, accounts>>

(***************************************************************************)
(* The store (Prisma over the User and Account tables).                    *)
(***************************************************************************)
UserIds(us) == {u.id : u \in us}

\* prisma.user.findUnique({ where: { email } })
FindUserByEmail(us, email) ==
    IF \E u \in us : u.email = email
    THEN CHOOSE u \in us : u.email = email
    ELSE NullUser

\* prisma.account.findFirst({ where: { provider, providerAccountId } }): the
\* rows the filter admits.  An undefined field is no filter in Prisma, so a
\* missing account matches every row and findFirst resolves to one of them.
AccountsMatching(as, provider, providerAccountId) ==
    IF provider = "absent"
    THEN as
    ELSE {a \in as : a.provider = provider /\ a.providerAccountId = providerAccountId}

FindFirstAccount(as, provider, providerAccountId) ==
    IF AccountsMatching(as, provider, providerAccountId) = {}
    THEN {NullAccount}
    ELSE AccountsMatching(as, provider, providerAccountId)

\* the unique index on User.email
EmailTaken(us, email) == \E u \in us : u.email = email

\* the unique index on Account (provider, providerAccountId)
AccountTaken(as, provider, providerAccountId) ==
    \E a \in as : a.provider = provider /\ a.providerAccountId = providerAccountId

\* the id the database gives the next User row (ids are never reused)
FreshId(us) == 1 + Cardinality(us)

(***************************************************************************)
(* The callback's arguments.  `user` is the framework's candidate for the  *)
(* attempt: a row of the User table, or a user synthesized from the        *)
(* profile (id 0, no row).  Its e-mail is the profile's e-mail.  The       *)
(* session is that of the request: none, or that of a stored user.         *)
(***************************************************************************)
Requests(us) ==
    [provider : Providers, providerAccountId : AccountIds, email : Emails,
     verified : BOOLEAN, email_verified : BOOLEAN,
     userId : {0} \cup UserIds(us), session : {NoSession} \cup UserIds(us)]

\* the requests of RaceSpec: sign-ups (synthesized user, no session) for the
\* one identity (github, 1), with an e-mail the provider verified
RaceRequests(us) ==
    {r \in Requests(us) : /\ r.provider = "github" /\ r.providerAccountId = 1
                          /\ r.verified /\ r.email_verified
                          /\ r.userId = 0 /\ r.session = NoSession}

NoRequest ==
    [provider |-> "absent", providerAccountId |-> 1, email |-> 1,
     verified |-> FALSE, email_verified |-> FALSE, userId |-> 0, session |-> NoSession]

(***************************************************************************)
(* signIn, lines 65-70: "Disallow sign up with another user's account".    *)
(***************************************************************************)
\* mutant: === for !==
OwnedByAnotherEq(eAccount, userId) ==
    eAccount # NullAccount /\ eAccount.userId = userId

OwnedByAnother(eAccount, userId) ==
    eAccount # NullAccount /\ eAccount.userId # userId

(***************************************************************************)
(* signIn, lines 77-100: the switch over account?.provider.  The cases of  *)
(* discord and google fall through, carrying checkedProvider with them.    *)
(* "verifyEmail" stands for `return verifyEmail(...)`.                     *)
(***************************************************************************)
\* mutant: the message no longer depends on checkedProvider
CaseDefaultUnverified(checkedProvider) == RedirectUnverified

CaseDefault(checkedProvider) ==
    IF checkedProvider THEN RedirectUnverified ELSE RedirectUnverifiable

\* mutant: profile.email_verified is not looked at
CaseGoogleUnguarded(checkedProvider, r) ==
    IF ~checkedProvider
    THEN "verifyEmail"
    ELSE CaseDefault(TRUE)

CaseGoogle(checkedProvider, r) ==
    IF ~checkedProvider /\ r.email_verified
    THEN "verifyEmail"
    ELSE CaseDefault(TRUE)

\* mutant: `checkedProvider = true` is missing after the discord check
CaseDiscordUnchecked(checkedProvider, r) ==
    IF ~checkedProvider /\ r.verified
    THEN "verifyEmail"
    ELSE CaseGoogle(checkedProvider, r)

CaseDiscord(checkedProvider, r) ==
    IF ~checkedProvider /\ r.verified
    THEN "verifyEmail"
    ELSE CaseGoogle(TRUE, r)

\* mutant: the `return` of the github case is missing
CaseGithubFallthrough(r) == CaseDiscord(TRUE, r)

CaseGithub(r) == "verifyEmail"

SwitchProvider(r) ==
    CASE r.provider = "github" -> CaseGithub(r)
      [] r.provider = "discord" -> CaseDiscord(FALSE, r)
      [] r.provider = "google" -> CaseGoogle(FALSE, r)
      [] OTHER -> CaseDefault(FALSE)

(***************************************************************************)
(* signIn, lines 103-111: the request has a session.                       *)
(***************************************************************************)
\* mutant: the `if (!existingAccount)` is missing
LoggedInAlways(eAccount) == Allow

\* mutant: the condition is inverted (`if (existingAccount)`)
LoggedInInverted(eAccount) ==
    IF eAccount # NullAccount THEN Allow ELSE RedirectLinked

\* mutant: a linked account is answered with false, not with the redirect
LoggedInDeny(eAccount) ==
    IF eAccount = NullAccount THEN Allow ELSE Deny

LoggedIn(eAccount) ==
    IF eAccount = NullAccount THEN Allow ELSE RedirectLinked

(***************************************************************************)
(* verifyEmail, lines 146-163: the branch taken, up to its first await.    *)
(***************************************************************************)
\* mutant: line 151 asks for `!existingUser` only
VerifyEmailBranchNoAccountCheck(eAccount, eUser) ==
    IF eUser # NullUser /\ ~eUser.emailVerified THEN "updateUser"
    ELSE IF eUser = NullUser THEN "createUser"
    ELSE IF eUser # NullUser /\ eUser.emailVerified THEN Allow
    ELSE Deny

\* mutant: the `else if (existingUser?.emailVerified)` branch is missing
VerifyEmailBranchNoVerified(eAccount, eUser) ==
    IF eUser # NullUser /\ ~eUser.emailVerified THEN "updateUser"
    ELSE IF eUser = NullUser /\ eAccount = NullAccount THEN "createUser"
    ELSE Deny

VerifyEmailBranch(eAccount, eUser) ==
    IF eUser # NullUser /\ ~eUser.emailVerified THEN "updateUser"
    ELSE IF eUser = NullUser /\ eAccount = NullAccount THEN "createUser"
    ELSE IF eUser # NullUser /\ eUser.emailVerified THEN Allow
    ELSE Deny

\* mutant: `.catch(() => true)`
UpdateSettledTrue(ok) == Allow

\* line 150: .then(() => true).catch(() => false)
UpdateSettled(ok) == IF ok THEN Allow ELSE Deny

\* mutant: the rejection is swallowed, `.catch(() => true)`
CreateUserSwallowed == Allow

\* line 152: `await prisma.user.create(...)` stands in no try and has no
\* .catch: a rejection leaves verifyEmail, and signIn with it
CreateUserRejected == Rejected

\* mutant: emailVerified is not set
CreatedUserUnverified(r, id) == [id |-> id, email |-> r.email, emailVerified |-> FALSE]

\* line 153: { ...user, emailVerified: new Date(), id: undefined }, with the
\* id the database gives the row
CreatedUser(r, id) == [id |-> id, email |-> r.email, emailVerified |-> TRUE]

\* line 157: { ...account, userId: newUser.id }
\* mutant: the account is bound to the candidate `user` of signIn
CreatedAccountOfCandidate(r, userId) ==
    [provider |-> r.provider, providerAccountId |-> r.providerAccountId,
     userId |-> r.userId]

CreatedAccount(r, userId) ==
    [provider |-> r.provider, providerAccountId |-> r.providerAccountId,
     userId |-> userId]

\* mutant: `.catch(() => true)`
CreateAccountSettledTrue(ok) == Allow

\* line 158: .then(() => true).catch(() => false)
CreateAccountSettled(ok) == IF ok THEN Allow ELSE Deny

(***************************************************************************)
(* The state after construction: a store that already serves one user.    *)
(* User 1 has e-mail 1, not verified yet, and owns the account             *)
(* (discord, 1).  No attempt is in flight.                                 *)
(***************************************************************************)
Init ==
    /\ users = {[id |-> 1, email |-> 1, emailVerified |-> FALSE]}
    /\ accounts = {[provider |-> "discord", providerAccountId |-> 1, userId |-> 1]}
    /\ pc = [p \in Attempts |-> "idle"]
    /\ req = [p \in Attempts |-> NoRequest]
    /\ existingUser = [p \in Attempts |-> NullUser]
    /\ existingAccount = [p \in Attempts |-> NullAccount]
    /\ newUser = [p \in Attempts |-> 0]
    /\ verified = [p \in Attempts |-> "none"]
    /\ result = [p \in Attempts |-> Pending]
    /\ writes = [p \in Attempts |-> <<>>]
    /\ faulted = FALSE
    /\ retry = [p \in Attempts |-> FALSE]

\* signIn settles with `value`
Settle(p, value) ==
    /\ result' = [result EXCEPT ![p] = value]
    /\ pc' = [pc EXCEPT ![p] = "done"]

(***************************************************************************)
(* signIn is called with one of `requests` (line 56) and reads the user of *)
(* the profile's e-mail (line 57).                                         *)
(***************************************************************************)
SignIn(p, requests) ==
    /\ pc[p] = "idle"
    /\ \E r \in requests :
          /\ req' = [req EXCEPT ![p] = r]
          /\ existingUser' = [existingUser EXCEPT ![p] = FindUserByEmail(users, r.email)]
    /\ pc' = [pc EXCEPT ![p] = "findAccount"]
    /\ UNCHANGED <<store, existingAccount, newUser, verified, result, writes, faulted,
                   retry>>

(***************************************************************************)
(* Lines 58-70: the account of (provider, providerAccountId) is read, and  *)
(* the attempt is denied if it belongs to another user than `user`.        *)
(* Otherwise the session is awaited (line 72).                             *)
(***************************************************************************)
FindAccount(p) ==
    /\ pc[p] = "findAccount"
    /\ \E a \in FindFirstAccount(accounts, req[p].provider, req[p].providerAccountId) :
          /\ existingAccount' = [existingAccount EXCEPT ![p] = a]
          /\ IF OwnedByAnother(a, req[p].userId)
             THEN Settle(p, Deny)
             ELSE /\ pc' = [pc EXCEPT ![p] = "getSession"]
                  /\ UNCHANGED result
    /\ UNCHANGED <<store, req, existingUser, newUser, verified, writes, faulted, retry>>

(***************************************************************************)
(* Lines 72-111: the session is known.  Without one the provider decides   *)
(* whether the e-mail is verified, and verifyEmail runs up to its first    *)
(* write; with one the account may be linked if nobody has it.             *)
(***************************************************************************)
CallVerifyEmail(p) ==
    LET branch == VerifyEmailBranch(existingAccount[p], existingUser[p]) IN
    IF branch \in {"updateUser", "createUser"}
    THEN /\ pc' = [pc EXCEPT ![p] = branch]
         /\ verified' = [verified EXCEPT ![p] = Pending]
         /\ UNCHANGED result
    ELSE /\ verified' = [verified EXCEPT ![p] = branch]
         /\ Settle(p, branch)

GetSession(p) ==
    /\ pc[p] = "getSession"
    /\ IF req[p].session = NoSession
       THEN IF SwitchProvider(req[p]) = "verifyEmail"
            THEN CallVerifyEmail(p)
            ELSE /\ Settle(p, SwitchProvider(req[p]))
                 /\ UNCHANGED verified
       ELSE /\ Settle(p, LoggedIn(existingAccount[p]))
            /\ UNCHANGED verified
    /\ UNCHANGED <<store, req, existingUser, existingAccount, newUser, writes, faulted,
                   retry>>

\* mutant: the update flips emailVerified of the row instead of setting it
UpdateUserToggling(p, ok) ==
    /\ pc[p] = "updateUser"
    /\ users' = IF ok
                THEN {IF u.id = existingUser[p].id
                      THEN [u EXCEPT !.emailVerified = ~@] ELSE u : u \in users}
                ELSE users
    /\ writes' = [writes EXCEPT ![p] = Append(@, [op |-> "updateUser", ok |-> ok])]
    /\ verified' = [verified EXCEPT ![p] = UpdateSettled(ok)]
    /\ Settle(p, UpdateSettled(ok))
    /\ faulted' = (faulted \/ ~ok)
    /\ UNCHANGED <<accounts, req, existingUser, existingAccount, newUser, retry>>

(***************************************************************************)
(* verifyEmail, lines 147-150: prisma.user.update sets emailVerified of    *)
(* the row read at line 57.  The write may fail (ok = FALSE).              *)
(***************************************************************************)
UpdateUser(p, ok) ==
    /\ pc[p] = "updateUser"
    /\ users' = IF ok
                THEN {IF u.id = existingUser[p].id
                      THEN [u EXCEPT !.emailVerified = TRUE] ELSE u : u \in users}
                ELSE users
    /\ writes' = [writes EXCEPT ![p] = Append(@, [op |-> "updateUser", ok |-> ok])]
    /\ verified' = [verified EXCEPT ![p] = UpdateSettled(ok)]
    /\ Settle(p, UpdateSettled(ok))
    /\ faulted' = (faulted \/ ~ok)
    /\ UNCHANGED <<accounts, req, existingUser, existingAccount, newUser, retry>>

(***************************************************************************)
(* verifyEmail, lines 152-154: prisma.user.create inserts the candidate    *)
(* with emailVerified set and an id of the database's.  The write fails    *)
(* when the e-mail is taken, and may fail otherwise (ok = FALSE).          *)
(***************************************************************************)
CreateUser(p, ok) ==
    /\ pc[p] = "createUser"
    /\ faulted' = (faulted \/ (~ok /\ ~EmailTaken(users, req[p].email)))
    /\ LET done == ok /\ ~EmailTaken(users, req[p].email) IN
       /\ writes' = [writes EXCEPT ![p] = Append(@, [op |-> "createUser", ok |-> done])]
       /\ IF done
          THEN /\ users' = users \cup {CreatedUser(req[p], FreshId(users))}
               /\ newUser' = [newUser EXCEPT ![p] = FreshId(users)]
               /\ pc' = [pc EXCEPT ![p] = "createAccount"]
               /\ UNCHANGED <<result, verified>>
          ELSE /\ verified' = [verified EXCEPT ![p] = CreateUserRejected]
               /\ Settle(p, CreateUserRejected)
               /\ UNCHANGED <<users, newUser>>
    /\ UNCHANGED <<accounts, req, existingUser, existingAccount, retry>>

\* mutant: a failed prisma.account.create is issued again
CreateAccountRetrying(p, ok) ==
    /\ pc[p] = "createAccount"
    /\ faulted' = (faulted \/ (~ok /\ ~AccountTaken(accounts, req[p].provider,
                                                     req[p].providerAccountId)))
    /\ LET done == ok /\ ~AccountTaken(accounts, req[p].provider, req[p].providerAccountId) IN
       /\ writes' = [writes EXCEPT ![p] = Append(@, [op |-> "createAccount", ok |-> done])]
       /\ IF done
          THEN /\ accounts' = accounts \cup {CreatedAccount(req[p], newUser[p])}
               /\ verified' = [verified EXCEPT ![p] = Allow]
               /\ Settle(p, Allow)
          ELSE UNCHANGED <<accounts, verified, result, pc>>
    /\ UNCHANGED <<users, req, existingUser, existingAccount, newUser, retry>>

(***************************************************************************)
(* verifyEmail, lines 156-158: prisma.account.create inserts the account   *)
(* for the user just created.  The write fails when the pair (provider,    *)
(* providerAccountId) is taken, and may fail otherwise (ok = FALSE).       *)
(***************************************************************************)
CreateAccount(p, ok) ==
    /\ pc[p] = "createAccount"
    /\ faulted' = (faulted \/ (~ok /\ ~AccountTaken(accounts, req[p].provider,
                                                     req[p].providerAccountId)))
    /\ LET done == ok /\ ~AccountTaken(accounts, req[p].provider, req[p].providerAccountId) IN
       /\ writes' = [writes EXCEPT ![p] = Append(@, [op |-> "createAccount", ok |-> done])]
       /\ accounts' = IF done
                      THEN accounts \cup {CreatedAccount(req[p], newUser[p])}
                      ELSE accounts
       /\ verified' = [verified EXCEPT ![p] = CreateAccountSettled(done)]
       /\ Settle(p, CreateAccountSettled(done))
    /\ UNCHANGED <<users, req, existingUser, existingAccount, newUser, retry>>

(***************************************************************************)
(* The framework takes the value signIn settled with; nothing of the       *)
(* attempt is kept (line 56: every name of signIn is local to the call).   *)
(***************************************************************************)
Return(p) ==
    /\ pc[p] = "done"
    /\ pc' = [pc EXCEPT ![p] = "idle"]
    /\ req' = [req EXCEPT ![p] = NoRequest]
    /\ existingUser' = [existingUser EXCEPT ![p] = NullUser]
    /\ existingAccount' = [existingAccount EXCEPT ![p] = NullAccount]
    /\ newUser' = [newUser EXCEPT ![p] = 0]
    /\ verified' = [verified EXCEPT ![p] = "none"]
    /\ result' = [result EXCEPT ![p] = Pending]
    /\ writes' = [writes EXCEPT ![p] = <<>>]
    /\ retry' = [retry EXCEPT ![p] = FALSE]
    /\ UNCHANGED <<store, faulted>>

(***************************************************************************)
(* signIn is called again with the request of the attempt before (lines    *)
(* 56-57), after a sign-in that verifyEmail allowed without a write.       *)
(***************************************************************************)
Retry(p) ==
    /\ pc[p] = "done"
    /\ result[p] = Allow /\ verified[p] = Allow /\ writes[p] = <<>>
    /\ existingUser' = [existingUser EXCEPT ![p] = FindUserByEmail(users, req[p].email)]
    /\ existingAccount' = [existingAccount EXCEPT ![p] = NullAccount]
    /\ verified' = [verified EXCEPT ![p] = "none"]
    /\ result' = [result EXCEPT ![p] = Pending]
    /\ retry' = [retry EXCEPT ![p] = TRUE]
    /\ pc' = [pc EXCEPT ![p] = "findAccount"]
    /\ UNCHANGED <<store, req, newUser, writes, faulted>>

(***************************************************************************)
(* Spec: one attempt at a time, over every request.                        *)
(***************************************************************************)
Next ==
    \/ SignIn(1, Requests(users))
    \/ FindAccount(1)
    \/ GetSession(1)
    \/ \E ok \in BOOLEAN : UpdateUser(1, ok)
    \/ \E ok \in BOOLEAN : CreateUser(1, ok)
    \/ \E ok \in BOOLEAN : CreateAccount(1, ok)
    \/ Return(1)
    \/ Retry(1)

Spec == Init /\ [][Next]_vars

(***************************************************************************)
(* RaceSpec: NumAttempts sign-ups interleaved at their awaits.             *)
(***************************************************************************)
RaceNext ==
    \E p \in Attempts :
        \/ SignIn(p, RaceRequests(users))
        \/ FindAccount(p)
        \/ GetSession(p)
        \/ \E ok \in BOOLEAN : UpdateUser(p, ok)
        \/ \E ok \in BOOLEAN : CreateUser(p, ok)
        \/ \E ok \in BOOLEAN : CreateAccount(p, ok)
        \/ Return(p)
        \/ Retry(p)

RaceSpec == Init /\ [][RaceNext]_vars

(***************************************************************************)
(* Vocabulary of the properties.                                           *)
(***************************************************************************)
Done(p) == pc[p] = "done"

\* attempt p passed the ownership check of lines 66-70
PassedOwnership(p) ==
    existingAccount[p] = NullAccount \/ existingAccount[p].userId = req[p].userId

\* attempt p issued prisma.user.create
IssuedCreateUser(p) == Len(writes[p]) >= 1 /\ writes[p][1].op = "createUser"

\* some write of attempt p failed
SomeWriteFailed(p) == \E i \in 1..Len(writes[p]) : ~writes[p][i].ok

\* the provider vouches for the profile's e-mail (spec 4.1, step 2a)
ProviderVerified(r) ==
    \/ r.provider = "github"
    \/ r.provider = "discord" /\ r.verified
    \/ r.provider = "google" /\ r.email_verified

SameIdentity(p, q) ==
    /\ req[p].provider = req[q].provider
    /\ req[p].providerAccountId = req[q].providerAccountId

(***************************************************************************)
(* C1.  An attempt whose account of (provider, providerAccountId) exists   *)
(* and belongs to another user than the candidate is denied (false), with  *)
(* or without a session, for every provider and every verification flag.   *)
(***************************************************************************)
C1_OwnedByAnotherDenied ==
    \A p \in Attempts :
        (/\ Done(p)
         /\ existingAccount[p] # NullAccount
         /\ existingAccount[p].userId # req[p].userId)
        => result[p] = Deny

C1_Witness ==
    \E p \in Attempts :
        /\ Done(p)
        /\ existingAccount[p] # NullAccount
        /\ existingAccount[p].userId # req[p].userId
        /\ req[p].session # NoSession
        /\ req[p].provider = "github"
        /\ result[p] = Deny

(***************************************************************************)
(* C2.  As claimed: with a session of user U1, an attempt for an account   *)
(* that belongs to another user U2 is denied (false), whatever candidate   *)
(* the framework supplies.                                                 *)
(***************************************************************************)
C2_Original ==
    \A p \in Attempts :
        (/\ Done(p)
         /\ req[p].session # NoSession
         /\ existingAccount[p] # NullAccount
         /\ existingAccount[p].userId # req[p].session)
        => result[p] = Deny

(***************************************************************************)
(* C2, amended.  With a session of user U1, an attempt for an account that *)
(* belongs to another user U2 is never allowed: it is denied (false) when  *)
(* the candidate is not U2, and redirected with the "already linked"       *)
(* message when the candidate is U2.                                       *)
(***************************************************************************)
C2_ForeignAccountNeverLinked ==
    \A p \in Attempts :
        (/\ Done(p)
         /\ req[p].session # NoSession
         /\ existingAccount[p] # NullAccount
         /\ existingAccount[p].userId # req[p].session)
        => result[p] = IF req[p].userId = existingAccount[p].userId
                       THEN RedirectLinked
                       ELSE Deny

C2_Witness ==
    \E p \in Attempts :
        /\ Done(p)
        /\ req[p].session # NoSession
        /\ existingAccount[p] # NullAccount
        /\ existingAccount[p].userId # req[p].session
        /\ req[p].userId = existingAccount[p].userId
        /\ result[p] = RedirectLinked

C4_WriteFailureDenies ==
    \A p \in Attempts :
        Done(p) => /\ result[p] \in Decisions
                   /\ SomeWriteFailed(p) => result[p] = Deny

(***************************************************************************)
(* C5.  In verifyEmail without existingUser and existingAccount: the       *)
(* successful createUser adds exactly one User, verified and with an id no *)
(* row had, and changes nothing else; the successful createAccount adds    *)
(* exactly one Account, of that user, and changes nothing else; and with   *)
(* both writes done the result is true.                                    *)
(***************************************************************************)
C5_CreatesOneUserOneAccount ==
    [][\A p \in Attempts :
          /\ (pc[p] = "createUser" /\ pc'[p] = "createAccount")
             => /\ existingUser[p] = NullUser /\ existingAccount[p] = NullAccount
                /\ \E u \in users' :
                      /\ u \notin users
                      /\ users' = users \cup {u}
                      /\ u.id \notin UserIds(users)
                      /\ u.id = newUser'[p]
                      /\ u.email = req[p].email
                      /\ u.emailVerified
                /\ accounts' = accounts
          /\ (pc[p] = "createAccount" /\ pc'[p] = "done" /\ writes'[p][2].ok)
             => /\ \E a \in accounts' :
                      /\ a \notin accounts
                      /\ accounts' = accounts \cup {a}
                      /\ a.userId = newUser[p]
                      /\ a.provider = req[p].provider
                      /\ a.providerAccountId = req[p].providerAccountId
                /\ users' = users
                /\ result'[p] = Allow
      ]_vars

C5_Witness ==
    \E p \in Attempts :
        /\ Done(p)
        /\ existingUser[p] = NullUser /\ existingAccount[p] = NullAccount
        /\ Len(writes[p]) = 2 /\ writes[p][1].ok /\ writes[p][2].ok
        /\ result[p] = Allow
        /\ \E u \in users : u.id = newUser[p] /\ u.emailVerified
        /\ \E a \in accounts : a.userId = newUser[p]

(***************************************************************************)
(* C6.  In verifyEmail without existingUser and existingAccount: when      *)
(* createUser succeeds and createAccount fails, the result is false and    *)
(* the new User row stays in the store, with no Account of it.             *)
(***************************************************************************)
C6_NoRollback ==
    \A p \in Attempts :
        (/\ Done(p)
         /\ Len(writes[p]) = 2 /\ writes[p][1].ok /\ ~writes[p][2].ok)
        => /\ result[p] = Deny
           /\ \E u \in users : u.id = newUser[p] /\ u.email = req[p].email
           /\ \A a \in accounts : a.userId # newUser[p]

C6_Witness ==
    \E p \in Attempts :
        /\ Done(p)
        /\ existingUser[p] = NullUser /\ existingAccount[p] = NullAccount
        /\ Len(writes[p]) = 2 /\ writes[p][1].ok /\ ~writes[p][2].ok
        /\ result[p] = Deny
        /\ \E u \in users : u.id = newUser[p]

(***************************************************************************)
(* C7.  Without a session and past the ownership check, an attempt of      *)
(* provider github ends as verifyEmail ends, whatever the profile holds:   *)
(* verifyEmail is called, signIn settles with what it settled with, and    *)
(* never with a redirect.                                                  *)
(***************************************************************************)
C7_GithubIsVerifyEmail ==
    \A p \in Attempts :
        (/\ Done(p)
         /\ req[p].session = NoSession
         /\ req[p].provider = "github"
         /\ PassedOwnership(p))
        => /\ verified[p] # "none"
           /\ result[p] = verified[p]
           /\ result[p] \notin Redirects

C7_Witness ==
    \E p \in Attempts :
        /\ Done(p)
        /\ req[p].session = NoSession
        /\ req[p].provider = "github"
        /\ ~req[p].verified /\ ~req[p].email_verified
        /\ PassedOwnership(p)
        /\ result[p] = Allow

(***************************************************************************)
(* C8.  Without a session and past the ownership check, a discord attempt  *)
(* with profile.verified false and a google attempt with                   *)
(* profile.email_verified false are redirected with the "unverified email  *)
(* address" message; verifyEmail is not called and nothing is written.     *)
(* A discord profile's email_verified does not count.                      *)
(***************************************************************************)
C8_UnverifiedRedirect ==
    \A p \in Attempts :
        (/\ Done(p)
         /\ req[p].session = NoSession
         /\ PassedOwnership(p)
         /\ \/ req[p].provider = "discord" /\ ~req[p].verified
            \/ req[p].provider = "google" /\ ~req[p].email_verified)
        => /\ result[p] = RedirectUnverified
           /\ verified[p] = "none"
           /\ writes[p] = <<>>

C8_Witness ==
    \E p \in Attempts :
        /\ Done(p)
        /\ req[p].session = NoSession
        /\ PassedOwnership(p)
        /\ req[p].provider = "discord"
        /\ ~req[p].verified /\ req[p].email_verified
        /\ result[p] = RedirectUnverified

(***************************************************************************)
(* C9.  Without a session and past the ownership check, an attempt of a    *)
(* provider that is none of github, discord, google (or of no provider) is *)
(* redirected with the "couldn't be verified" message, whatever the        *)
(* profile's verified and email_verified are.                              *)
(***************************************************************************)
C9_UnknownProviderRedirect ==
    \A p \in Attempts :
        (/\ Done(p)
         /\ req[p].session = NoSession
         /\ PassedOwnership(p)
         /\ req[p].provider \notin {"github", "discord", "google"})
        => /\ result[p] = RedirectUnverifiable
           /\ verified[p] = "none"

C9_Witness ==
    \E p \in Attempts :
        /\ Done(p)
        /\ req[p].session = NoSession
        /\ PassedOwnership(p)
        /\ req[p].provider = "other"
        /\ req[p].verified /\ req[p].email_verified
        /\ result[p] = RedirectUnverifiable

(***************************************************************************)
(* C10.  With a session, an attempt whose (provider, providerAccountId)    *)
(* has no account is allowed (true), for every provider and verification   *)
(* flag, also when the profile's e-mail is that of a stored user who is    *)
(* not the session's.                                                      *)
(***************************************************************************)
C10_UnclaimedLinkAllowed ==
    \A p \in Attempts :
        (/\ Done(p)
         /\ req[p].session # NoSession
         /\ existingAccount[p] = NullAccount)
        => result[p] = Allow

C10_Witness ==
    \E p \in Attempts :
        /\ Done(p)
        /\ req[p].session # NoSession
        /\ existingAccount[p] = NullAccount
        /\ existingUser[p] # NullUser
        /\ existingUser[p].id # req[p].session
        /\ ~req[p].verified /\ ~req[p].email_verified
        /\ result[p] = Allow

(***************************************************************************)
(* C11.  With a session of user U1 and U1 as the candidate, an attempt for *)
(* an account that U1 already owns is redirected with the "already been    *)
(* linked" error: it is neither allowed nor denied.                        *)
(***************************************************************************)
C11_OwnAccountRedirected ==
    \A p \in Attempts :
        (/\ Done(p)
         /\ req[p].session # NoSession
         /\ req[p].userId = req[p].session
         /\ existingAccount[p] # NullAccount
         /\ existingAccount[p].userId = req[p].session)
        => result[p] = RedirectLinked

C11_Witness ==
    \E p \in Attempts :
        /\ Done(p)
        /\ req[p].session # NoSession
        /\ req[p].userId = req[p].session
        /\ existingAccount[p] # NullAccount
        /\ existingAccount[p].userId = req[p].session
        /\ req[p].provider = "discord"
        /\ result[p] = RedirectLinked

(***************************************************************************)
(* C12.  When verifyEmail runs with an existingUser whose emailVerified is *)
(* unset, with or without an existingAccount, it issues the update and     *)
(* nothing else.  If the update succeeds that user is verified and the     *)
(* result is true; if it fails the user stays unverified and the result is *)
(* false.  No User and no Account row is created either way.               *)
(***************************************************************************)
C12_UnverifiedUserIsUpdated ==
    [][\A p \in Attempts :
          /\ (/\ pc[p] = "getSession" /\ verified'[p] # "none"
              /\ existingUser[p] # NullUser /\ ~existingUser[p].emailVerified)
             => (pc'[p] = "updateUser" /\ users' = users /\ accounts' = accounts)
          /\ (pc[p] = "updateUser" /\ pc'[p] # "updateUser")
             => /\ pc'[p] = "done"
                /\ writes'[p] = <<[op |-> "updateUser", ok |-> writes'[p][1].ok]>>
                /\ accounts' = accounts
                /\ UserIds(users') = UserIds(users)
                /\ Cardinality(users') = Cardinality(users)
                /\ \A u \in users : u.id # existingUser[p].id => u \in users'
                /\ IF writes'[p][1].ok
                   THEN /\ result'[p] = Allow
                        /\ [existingUser[p] EXCEPT !.emailVerified = TRUE] \in users'
                   ELSE /\ result'[p] = Deny
                        /\ existingUser[p] \in users'
      ]_vars

C12_Witness ==
    \E p \in Attempts :
        /\ Done(p)
        /\ existingUser[p] # NullUser /\ ~existingUser[p].emailVerified
        /\ existingAccount[p] # NullAccount
        /\ writes[p] = <<[op |-> "updateUser", ok |-> TRUE]>>
        /\ result[p] = Allow
        /\ \E u \in users : u.id = existingUser[p].id /\ u.emailVerified

(***************************************************************************)
(* C13.  As claimed: an unauthenticated attempt with a provider-verified   *)
(* e-mail whose existingUser is already verified returns true.             *)
(***************************************************************************)
C13_Original ==
    \A p \in Attempts :
        (/\ Done(p)
         /\ req[p].session = NoSession
         /\ ProviderVerified(req[p])
         /\ existingUser[p] # NullUser /\ existingUser[p].emailVerified)
        => result[p] = Allow

(***************************************************************************)
(* C13, amended.  An unauthenticated attempt with a provider-verified      *)
(* e-mail that passes the ownership check and whose existingUser is        *)
(* already verified returns true, writes nothing and leaves the store as   *)
(* it was; the same attempt repeated, any number of times, returns true    *)
(* every time and leaves the store as it was.                              *)
(***************************************************************************)
C13_VerifiedUserIdempotent ==
    [][\A p \in Attempts :
          /\ (/\ pc[p] = "getSession"
              /\ req[p].session = NoSession
              /\ ProviderVerified(req[p])
              /\ existingUser[p] # NullUser /\ existingUser[p].emailVerified)
             => /\ pc'[p] = "done"
                /\ result'[p] = Allow
                /\ writes'[p] = <<>>
                /\ users' = users /\ accounts' = accounts
          /\ (retry[p] \/ retry'[p])
             => /\ users' = users /\ accounts' = accounts
                /\ pc'[p] = "done" => result'[p] = Allow
      ]_vars

C13_Witness ==
    \E p \in Attempts :
        /\ Done(p)
        /\ retry[p]
        /\ req[p].session = NoSession
        /\ ProviderVerified(req[p])
        /\ existingUser[p] # NullUser /\ existingUser[p].emailVerified
        /\ writes[p] = <<>>
        /\ result[p] = Allow

(***************************************************************************)
(* C14.  When verifyEmail runs with no existingUser and an existingAccount *)
(* (which has passed the ownership check, so that its userId is the        *)
(* candidate's id), the attempt is denied there and then, and nothing is   *)
(* written to the store.                                                   *)
(***************************************************************************)
C14_AccountWithoutUserDenied ==
    [][\A p \in Attempts :
          (/\ pc[p] = "getSession"
           /\ verified'[p] # "none"
           /\ existingUser[p] = NullUser
           /\ existingAccount[p] # NullAccount)
          => /\ existingAccount[p].userId = req[p].userId
             /\ pc'[p] = "done"
             /\ result'[p] = Deny
             /\ verified'[p] = Deny
             /\ writes'[p] = <<>>
             /\ users' = users /\ accounts' = accounts
      ]_vars

C14_Witness ==
    \E p \in Attempts :
        /\ Done(p)
        /\ verified[p] = Deny
        /\ existingUser[p] = NullUser
        /\ existingAccount[p] # NullAccount
        /\ existingAccount[p].userId = req[p].userId
        /\ writes[p] = <<>>
        /\ result[p] = Deny

(***************************************************************************)
(* C15.  An attempt issues each write at most once and never reissues a    *)
(* failed one: its writes are none, one updateUser, or one createUser      *)
(* followed, if that succeeded, by at most one createAccount, and a failed *)
(* write is the last thing the attempt does.  Nothing of an attempt is     *)
(* left when it has returned: the next attempt starts from the request     *)
(* and the store alone.                                                    *)
(***************************************************************************)
C15_NoRetryNoCarriedState ==
    \A p \in Attempts :
        LET w == writes[p] IN
        /\ \/ w = <<>>
           \/ Len(w) = 1 /\ w[1].op \in {"updateUser", "createUser"}
           \/ /\ Len(w) = 2
              /\ w[1] = [op |-> "createUser", ok |-> TRUE]
              /\ w[2].op = "createAccount"
        /\ \A i \in 1..Len(w) :
              ~w[i].ok => /\ i = Len(w)
                          /\ Done(p)
                          /\ result[p] \in {Deny, Rejected}
        /\ pc[p] = "idle"
           => /\ req[p] = NoRequest
              /\ existingUser[p] = NullUser
              /\ existingAccount[p] = NullAccount
              /\ newUser[p] = 0
              /\ verified[p] = "none"
              /\ result[p] = Pending
              /\ w = <<>>
        /\ pc[p] = "findAccount"
           => /\ existingUser[p] = FindUserByEmail(users, req[p].email)
              /\ existingAccount[p] = NullAccount
              /\ newUser[p] = 0
              /\ verified[p] = "none"
              /\ result[p] = Pending
              /\ w = <<>>

C15_Witness ==
    \E p \in Attempts :
        /\ pc[p] = "done"
        /\ Len(writes[p]) = 2
        /\ writes[p][1].op = "createUser" /\ writes[p][1].ok
        /\ writes[p][2].op = "createAccount" /\ ~writes[p][2].ok
        /\ result[p] = Deny

(***************************************************************************)
(* C16.  The rows of User and Account change only in a write of            *)
(* verifyEmail, which only an attempt without a session and with an e-mail *)
(* its provider has verified issues.  An attempt that ends in the deny of  *)
(* the ownership check, in a redirect to /auth/linkaccount, or with a      *)
(* session has issued no write and leaves the rows as they were.           *)
(***************************************************************************)
C16_WritesOnlyInVerifyEmail ==
    [][/\ (users' # users \/ accounts' # accounts)
          => \E p \in Attempts :
                /\ pc[p] \in {"updateUser", "createUser", "createAccount"}
                /\ req[p].session = NoSession
                /\ ProviderVerified(req[p])
                /\ verified[p] = Pending
                /\ Len(writes'[p]) = Len(writes[p]) + 1
       /\ \A p \in Attempts :
             (/\ pc[p] # "done" /\ pc'[p] = "done"
              /\ \/ pc[p] = "findAccount"
                 \/ result'[p] \in Redirects
                 \/ req[p].session # NoSession)
             => /\ writes'[p] = <<>>
                /\ verified'[p] = "none"
                /\ users' = users /\ accounts' = accounts
       /\ \A p \in Attempts :
             pc[p] \in {"idle", "findAccount", "getSession", "done"}
             => writes'[p] = IF pc'[p] = "idle" THEN <<>> ELSE writes[p]
      ]_vars

C16_Witness ==
    /\ \E p \in Attempts :
          /\ Done(p)
          /\ result[p] \in Redirects
          /\ writes[p] = <<>>
    /\ users # {[id |-> 1, email |-> 1, emailVerified |-> FALSE]}

(***************************************************************************)
(* C17.  In every step of every interleaving of attempts, each User row    *)
(* stays, with its id and its e-mail, and stays verified if it was; a row  *)
(* that appears is verified.                                               *)
(***************************************************************************)
C17_EmailVerifiedMonotonic ==
    [][/\ \A u \in users :
             \E v \in users' : /\ v.id = u.id
                               /\ v.email = u.email
                               /\ u.emailVerified => v.emailVerified
       /\ \A v \in users' :
             (\A u \in users : u.id # v.id) => v.emailVerified
       /\ Cardinality(users') >= Cardinality(users)
      ]_vars

C17_Witness ==
    /\ [id |-> 1, email |-> 1, emailVerified |-> TRUE] \in users
    /\ \E v \in users : v.id # 1 /\ v.emailVerified
    /\ \E p, q \in Attempts :
          /\ p # q
          /\ Done(p) /\ writes[p] = <<[op |-> "updateUser", ok |-> TRUE]>>
          /\ Done(q) /\ writes[q] = <<[op |-> "updateUser", ok |-> TRUE]>>

(***************************************************************************)
(* C18.  In every step of every interleaving of attempts, each Account row *)
(* stays as it is, owner included, and each Account row has an existing    *)
(* User; a row that appears is the account of the request of an attempt    *)
(* that found no user for its e-mail and created one, and it is bound to   *)
(* that user.                                                              *)
(***************************************************************************)
C18_AccountBoundToCreatedUser ==
    [][/\ \A a \in accounts : a \in accounts'
       /\ \A a \in accounts' : \E u \in users' : u.id = a.userId
       /\ \A a \in accounts' \ accounts :
             \E p \in Attempts :
                /\ pc[p] = "createAccount"
                /\ existingUser[p] = NullUser
                /\ writes[p] = <<[op |-> "createUser", ok |-> TRUE]>>
                /\ a.provider = req[p].provider
                /\ a.providerAccountId = req[p].providerAccountId
                /\ a.userId = newUser[p]
                /\ [id |-> newUser[p], email |-> req[p].email, emailVerified |-> TRUE]
                      \in users
                /\ \A b \in accounts : b.userId # a.userId
      ]_vars

C18_Witness ==
    \E p \in Attempts :
        /\ Done(p)
        /\ existingUser[p] = NullUser
        /\ writes[p] = <<[op |-> "createUser", ok |-> TRUE],
                         [op |-> "createAccount", ok |-> TRUE]>>
        /\ [provider |-> req[p].provider, providerAccountId |-> req[p].providerAccountId,
            userId |-> newUser[p]] \in accounts
        /\ \E u \in users : u.id = newUser[p] /\ u.email = req[p].email

====
